---- MODULE Spec2Model ----
(***************************************************************************)
(* Model of the structor evaluator (src/structor.go): Eval walks the       *)
(* fields of a record, dispatches an interpreter per field, assigns the    *)
(* result back through reflectSet, recurses into nested records and        *)
(* aggregates the per-field errors.                                        *)
(*                                                                         *)
(* Strings are sequences of tokens, so that formatting (Sprintf, the       *)
(* rendering of a struct tag) and substring search are computed.           *)
(* The recursion of evaluator.eval is an explicit stack of frames.  The    *)
(* interpreters and the scanner are collaborators behind interfaces: an    *)
(* Execute call is a nondeterministic choice of its outcome.               *)
(***************************************************************************)
EXTENDS Integers, Sequences, FiniteSets, TLC

\* ------------------------------------------------------------------ bounds
\* Record instances in the heap, fields per record type.
NumRecs == 2
NumFields == 2
\* Integer values are 0..MaxVal.
MaxVal == 1
\* Frames of evaluator.eval the goroutine stack holds; one more is Go's
\* fatal "stack overflow".
StackLimit == 3

Recs == 1..NumRecs
Fields == 1..NumFields

\* ------------------------------------------------------------------ strings
Lit(s) == [s |-> s, n |-> 0]
TypeTok(r) == [s |-> "T", n |-> r]
FieldTok(f) == [s |-> "F", n |-> f]

Contains(text, sub) ==
    \E i \in 1..(Len(text) + 1) :
        /\ i + Len(sub) - 1 <= Len(text)
        /\ SubSeq(text, i, i + Len(sub) - 1) = sub

\* ------------------------------------------------------------------- values
NilV == [k |-> "nil", n |-> 0]
IntV(n) == [k |-> "int", n |-> n]
StrV == [k |-> "str", n |-> 0]
RefV(r) == [k |-> "ref", n |-> r]

\* What an interpreter may return: nil, a number, a string.
Results == {NilV, StrV} \cup {IntV(n) : n \in 0..MaxVal}

\* The declared kinds of a field: a number, a pointer to a record, a record
\* held by value, an empty interface.
Kinds == {"int", "ptr", "struct", "iface"}

\* ------------------------------------------------------------ struct tags
\* A struct tag is a sequence of items: key:"value" pairs, bare words that are
\* no tag syntax, and malformed items.
WholeTag == ""
WordKey == "#word"
BadKey == "#bad"
Item(k, v) == [k |-> k, v |-> v]

ValText(v) == IF v = "" THEN <<>> ELSE <<Lit(v)>>

ItemText(it) ==
    IF it.k = WordKey THEN <<Lit("word")>>
    ELSE IF it.k = BadKey THEN <<Lit("!")>>
    ELSE ValText(it.k) \o <<Lit(":\"")>> \o ValText(it.v) \o <<Lit("\"")>>

RECURSIVE TagString(_)
\* string(f.Tag): the raw annotation as written.
TagString(tag) ==
    IF tag = <<>> THEN <<>>
    ELSE ItemText(Head(tag)) \o TagString(Tail(tag))

\* scanner.Tags: the tag map of an annotation, or an error for a malformed one.
\* Bare words yield no entry; a later item of the same key wins.
Tags(tag) ==
    LET idx == {j \in 1..Len(tag) : tag[j].k \notin {WordKey, BadKey}}
        keys == {tag[j].k : j \in idx}
        last(k) == CHOOSE j \in idx : tag[j].k = k /\ \A j2 \in idx : tag[j2].k = k => j2 <= j
    IN  IF \E j \in 1..Len(tag) : tag[j].k = BadKey
        THEN [err |-> TRUE, tags |-> << >>]
        ELSE [err |-> FALSE, tags |-> [k \in keys |-> ValText(tag[last(k)].v)]]

Delete(m, k) == [x \in (DOMAIN m) \ {k} |-> m[x]]

\* No interpreter selected: the nil el.Interpreter of a fieldDescr.
NoInterp == "<nil>"

\* evaluator.fieldIntrospect, the dispatch: every fieldDescr the range over the
\* tag map (in any order) can produce for a field with annotation tag, under
\* the registry reg (the set of registered tag names).
fieldIntrospect(tag, reg) ==
    LET sc == Tags(tag)
        hits == IF sc.err THEN {} ELSE (DOMAIN sc.tags) \cap reg
    IN  IF sc.err
        THEN {[err |-> TRUE, expr |-> <<>>, interp |-> NoInterp, tags |-> sc.tags]}
        ELSE IF hits # {}
        THEN {[err |-> FALSE, expr |-> sc.tags[k], interp |-> k,
               tags |-> Delete(sc.tags, k)] : k \in hits}
        ELSE IF WholeTag \in reg
        THEN {[err |-> FALSE, expr |-> TagString(tag), interp |-> WholeTag,
               tags |-> Delete(sc.tags, WholeTag)]}
        ELSE {[err |-> FALSE, expr |-> <<>>, interp |-> NoInterp, tags |-> sc.tags]}

\* ------------------------------------------------------------------- errors
NilErr == [nil |-> TRUE, multi |-> FALSE, texts |-> <<>>]
PlainErr(text) == [nil |-> FALSE, multi |-> FALSE, texts |-> <<text>>]

\* multierror.Append(err, e) as eval uses it: the entries of err, then e, a
\* nested aggregate flattened into its entries.
multierrorAppend(err, e) == [nil |-> FALSE, multi |-> TRUE, texts |-> err.texts \o e.texts]

RECURSIVE Bullets(_)
Bullets(texts) ==
    IF texts = <<>> THEN <<>>
    ELSE <<Lit("* ")>> \o Head(texts) \o Bullets(Tail(texts))

\* err.Error(): the text of the error Eval returned.
ErrorText(err) ==
    IF err.nil THEN <<>>
    ELSE IF err.multi THEN <<Lit("errors occurred:")>> \o Bullets(err.texts)
    ELSE err.texts[1]

\* fmt.Errorf("structor: <<%s>>: %v", longName, err)
Wrap(longName, detail) ==
    <<Lit("structor: "), Lit("<<")>> \o longName \o <<Lit(">>"), Lit(": ")>> \o detail

\* -------------------------------------------------------------------- state
VARIABLES
    pc,       \* "init", "walk", "done" (Eval returned), "panic_arg", "panic_nil",
              \* "panic_set", "overflow"; "dispatch", "dispatched" for a dispatch on its own
    ev,       \* the evaluator: [reg, nonMut, evalEmpty]
    decl,     \* the record types: decl.tag[r][f] the annotation, decl.kind[r][f] the declared kind
    heap,     \* heap[r][f]: the value of field f of record r
    pre,      \* heap as it was when Eval was called
    arg,      \* the value passed to Eval as s
    extra,    \* the value passed to Eval as extra
    stack,    \* the active calls of evaluator.eval, innermost last
    ret,      \* the error Eval returned
    ctx,      \* the el.Context handed to the latest Execute call
    lastRes,  \* lastRes[d]: what the interpreter returned for the field the call at depth d recursed from
    fails,    \* the field steps that failed, in the order they failed
    visits,   \* fieldIntrospect calls so far
    entered,  \* records entered by evaluator.eval so far
    execs,    \* execs[r][f]: Execute calls for field f of record r, counted to 2
    dsp       \* a dispatch on its own: [tag, reg, out]

vars == <<pc, ev, decl, heap, pre, arg, extra, stack, ret, ctx, lastRes, fails,
          visits, entered, execs, dsp>>

NoArg == [k |-> "none", r |-> 0]
NoCtx == [s |-> NoArg, extra |-> NilV, sub |-> NilV, depth |-> 0, longName |-> <<>>]
NoDispatch == [tag |-> <<>>, reg |-> {}, out |-> {}]

Top == stack[Len(stack)]
Depth == Len(stack)

\* ------------------------------------------------------------- reflection
\* evaluator.structIntrospect on the argument of Eval: reflect.Value.Type
\* panics on the zero Value that nil and a nil pointer indirect to; any kind
\* but a struct is the root-argument error.
structIntrospect(s) ==
    CASE s.k \in {"nil", "nilptr"} -> "panic"
      [] s.k \in {"ptrptr", "int"} -> "error"
      [] s.k \in {"ptr", "val"}    -> "ok"

\* fmt.Sprintf("%T", curr): the record's type, behind a star when curr is a pointer.
TypeName(fr) == (IF fr.addr THEN <<Lit("*")>> ELSE <<>>) \o <<TypeTok(fr.curr)>>

\* fmt.Sprintf("%T.%s", curr, f.name)
LongName(fr, i) == TypeName(fr) \o <<Lit("."), FieldTok(i)>>

\* res.settable: v.CanSet() of reflect.Indirect(val.Field(i)); v.Addr() is
\* never settable. The pointee of a pointer is addressable, the invalid Value
\* of a nil pointer is not, any other field is as addressable as its record.
Settable(fr, i) ==
    IF decl.kind[fr.curr][i] = "ptr" THEN heap[fr.curr][i] # NilV ELSE fr.addr

RECURSIVE ZeroRec(_, _)
\* reflect.Zero of a record type written over record t: every field its zero
\* value, a record held by value zeroed in place.
ZeroRec(h, t) ==
    LET step[f \in 0..NumFields] ==
          IF f = 0 THEN h
          ELSE LET h0 == step[f - 1]
                   k == decl.kind[t][f]
               IN  CASE k = "int"    -> [h0 EXCEPT ![t][f] = IntV(0)]
                     [] k = "struct" -> ZeroRec(h0, h0[t][f].n)
                     [] OTHER        -> [h0 EXCEPT ![t][f] = NilV]
    IN  step[NumFields]

\* vnv.Type().ConvertibleTo(vt) for the results an interpreter returns: a
\* number converts to a number, anything to the empty interface, nothing to a
\* record or to a pointer to one.
ConvertibleTo(nv, kind) ==
    CASE kind = "int"   -> nv.k = "int"
      [] kind = "iface" -> TRUE
      [] OTHER          -> FALSE

\* The body of reflectSet under its deferred recover: [panic, h]. For a pointer
\* field v is the pointee and vt the pointer type, so Set of the zero pointer
\* panics; a result that does not convert is dropped when v is a record.
reflectSetBody(h, r, i, nv) ==
    LET kind == decl.kind[r][i] IN
    IF nv = NilV
    THEN CASE kind = "ptr"    -> [panic |-> TRUE, h |-> h]
           [] kind = "struct" -> [panic |-> FALSE, h |-> ZeroRec(h, h[r][i].n)]
           [] kind = "int"    -> [panic |-> FALSE, h |-> [h EXCEPT ![r][i] = IntV(0)]]
           [] kind = "iface"  -> [panic |-> FALSE, h |-> [h EXCEPT ![r][i] = NilV]]
    ELSE IF ~ConvertibleTo(nv, kind) /\ kind \in {"ptr", "struct"}
    THEN [panic |-> FALSE, h |-> h]
    ELSE IF ~ConvertibleTo(nv, kind)
    THEN [panic |-> TRUE, h |-> h]
    ELSE [panic |-> FALSE, h |-> [h EXCEPT ![r][i] = nv]]

reflectSetNoRecover(h, r, i, nv) ==
    LET b == reflectSetBody(h, r, i, nv)
    IN  [panic |-> b.panic, err |-> FALSE, text |-> <<>>, h |-> b.h]

\* reflectSet(f.value, f.typ, result): a panic of the body is recovered and
\* returned as an error.
reflectSet(h, r, i, nv) ==
    LET b == reflectSetBody(h, r, i, nv)
    IN  [panic |-> FALSE, err |-> b.panic,
         text |-> IF b.panic THEN <<Lit("structor: "), Lit("reflect: cannot set")>> ELSE <<>>,
         h |-> b.h]

\* --------------------------------------------------------------- the walk
\* The error text of a failing Execute is the interpreter's own. The registry
\* holds the template interpreter under "eval" (it names its template after
\* ctx.LongName, as NewDefaultEvaluator's does) and a custom interpreter under
\* WholeTag.
InterpErrText(interp, longName) ==
    IF interp = "eval"
    THEN <<Lit("template: "), Lit("<<")>> \o longName \o <<Lit(">>"), Lit(": failed")>>
    ELSE <<Lit("boom")>>

ScanErrText == <<Lit("bad syntax for struct tag")>>

\* The error eval's closure returns when Execute failed.
ExecError(longName, text) == PlainErr(text)

\* The error eval's closure returns when reflectSet failed.
SetError(longName, text) == PlainErr(Wrap(longName, text))

\* The error eval's closure returns when the scanner failed.
ScanError(longName, text) == PlainErr(Wrap(longName, text))

ShouldSetAlways(nonMut, settable) == settable

\* The guard of the assignment.
ShouldSet(nonMut, settable) == ~nonMut /\ settable

\* The guard of the evaluation.
ShouldEval(expr, evalEmpty) == expr # <<>> \/ evalEmpty

RecSubInherit(result, fr) == fr.sub

\* The arguments of the recursive call: the root, the extra, the sub context.
RecStruct(fr) == fr.s
RecExtra(fr) == fr.extra
RecSub(result, fr) == result

MergeFirst(merr, err) ==
    IF err.nil THEN merr
    ELSE multierrorAppend(merr, [err EXCEPT !.texts = <<Head(err.texts)>>])

\* merr after the closure of a field returned err.
Merge(merr, err) == IF err.nil THEN merr ELSE multierrorAppend(merr, err)

\* The nested record eval recurses into after field i, read from the field as
\* it is now: one level of interface unwrapped, byRef taking the address when
\* the value is addressable.
Nested(fr, h, i) ==
    LET k == decl.kind[fr.curr][i]
        v == h[fr.curr][i]
    IN  CASE k = "ptr" /\ v # NilV      -> [some |-> TRUE, rec |-> v.n, addr |-> TRUE]
          [] k = "struct"               -> [some |-> TRUE, rec |-> v.n, addr |-> fr.addr]
          [] k = "iface" /\ v.k = "ref" -> [some |-> TRUE, rec |-> v.n, addr |-> TRUE]
          [] OTHER                      -> [some |-> FALSE, rec |-> 0, addr |-> FALSE]

\* A call eval(s, extra, substruct, subctx) at its first field.
Frame(s, x, r, addr, sub) ==
    [s |-> s, extra |-> x, curr |-> r, addr |-> addr, i |-> 1, sub |-> sub, merr |-> NilErr]

Advance(fr, err) == [fr EXCEPT !.i = fr.i + 1, !.merr = Merge(fr.merr, err)]

SetTop(fr) == [stack EXCEPT ![Len(stack)] = fr]

\* The el.Context of field i in the call fr.
Context(fr, i) ==
    [s |-> fr.s, extra |-> fr.extra, sub |-> fr.sub, depth |-> Depth,
     longName |-> LongName(fr, i)]

Failure(kind) == [kind |-> kind, r |-> Top.curr, f |-> Top.i, depth |-> Depth]

\* The rest of a field step that did not fail, with the interpreter's result
\* (nil when the field was not evaluated) and the heap after the assignment.
Proceed(h, result) ==
    LET fr == Top
        nx == Nested(fr, h, fr.i)
    IN  /\ heap' = h
        /\ IF ~nx.some
           THEN /\ pc' = "walk"
                /\ stack' = SetTop(Advance(fr, NilErr))
                /\ UNCHANGED <<lastRes, entered>>
           ELSE IF Depth = StackLimit
           THEN /\ pc' = "overflow"
                /\ UNCHANGED <<stack, lastRes, entered>>
           ELSE /\ pc' = "walk"
                /\ stack' = Append(stack, Frame(RecStruct(fr), RecExtra(fr), nx.rec,
                                                nx.addr, RecSub(result, fr)))
                /\ lastRes' = [lastRes EXCEPT ![Depth] = result]
                /\ entered' = entered + 1

\* Eval(s, extra): eval(s, extra, nil, nil) up to its first field.
Eval ==
    /\ pc = "init"
    /\ LET si == structIntrospect(arg) IN
       CASE si = "panic" -> /\ pc' = "panic_arg"
                            /\ UNCHANGED <<stack, ret, entered>>
         [] si = "error" -> /\ pc' = "done"
                            /\ ret' = PlainErr(<<Lit("structor: must be a struct or a pointer to struct")>>)
                            /\ UNCHANGED <<stack, entered>>
         [] si = "ok"    -> /\ pc' = "walk"
                            /\ stack' = <<Frame(arg, extra, arg.r, arg.k = "ptr", NilV)>>
                            /\ entered' = 1
                            /\ UNCHANGED ret
    /\ UNCHANGED <<ev, decl, heap, pre, arg, extra, ctx, lastRes, fails, visits, execs, dsp>>

AtField == pc = "walk" /\ Top.i <= NumFields

Descr == fieldIntrospect(decl.tag[Top.curr][Top.i], ev.reg)

Counted(r, i) == [execs EXCEPT ![r][i] = IF @ < 2 THEN @ + 1 ELSE @]

\* A field whose annotation the scanner rejects.
FieldScanError ==
    /\ AtField
    /\ \E d \in Descr :
         /\ d.err
         /\ stack' = SetTop(Advance(Top, ScanError(LongName(Top, Top.i), ScanErrText)))
    /\ fails' = Append(fails, Failure("scan"))
    /\ visits' = visits + 1
    /\ ctx' = NoCtx
    /\ UNCHANGED <<pc, ev, decl, heap, pre, arg, extra, ret, lastRes, entered, execs, dsp>>

\* A field that is not evaluated.
FieldSkip ==
    /\ AtField
    /\ \E d \in Descr :
         /\ ~d.err
         /\ ~ShouldEval(d.expr, ev.evalEmpty)
    /\ Proceed(heap, NilV)
    /\ visits' = visits + 1
    /\ ctx' = NoCtx
    /\ UNCHANGED <<ev, decl, pre, arg, extra, ret, fails, execs, dsp>>

\* A field that is evaluated with no interpreter selected: Execute on the nil
\* interface panics.
FieldExecNil ==
    /\ AtField
    /\ \E d \in Descr :
         /\ ~d.err
         /\ ShouldEval(d.expr, ev.evalEmpty)
         /\ d.interp = NoInterp
    /\ pc' = "panic_nil"
    /\ visits' = visits + 1
    /\ ctx' = Context(Top, Top.i)
    /\ UNCHANGED <<ev, decl, heap, pre, arg, extra, stack, ret, lastRes, fails, entered, execs, dsp>>

\* A field whose interpreter fails.
FieldExecError ==
    /\ AtField
    /\ \E d \in Descr :
         /\ ~d.err
         /\ ShouldEval(d.expr, ev.evalEmpty)
         /\ d.interp # NoInterp
         /\ stack' = SetTop(Advance(Top, ExecError(LongName(Top, Top.i),
                                        InterpErrText(d.interp, LongName(Top, Top.i)))))
    /\ fails' = Append(fails, Failure("exec"))
    /\ visits' = visits + 1
    /\ ctx' = Context(Top, Top.i)
    /\ execs' = Counted(Top.curr, Top.i)
    /\ UNCHANGED <<pc, ev, decl, heap, pre, arg, extra, ret, lastRes, entered, dsp>>

\* A field whose interpreter returns a result.
FieldExecOk ==
    /\ AtField
    /\ \E d \in Descr :
         /\ ~d.err
         /\ ShouldEval(d.expr, ev.evalEmpty)
         /\ d.interp # NoInterp
    /\ \E result \in Results :
         IF ShouldSet(ev.nonMut, Settable(Top, Top.i))
         THEN LET rs == reflectSet(heap, Top.curr, Top.i, result) IN
              IF rs.panic
              THEN /\ pc' = "panic_set"
                   /\ UNCHANGED <<heap, stack, lastRes, fails, entered>>
              ELSE IF rs.err
              THEN /\ stack' = SetTop(Advance(Top, SetError(LongName(Top, Top.i), rs.text)))
                   /\ fails' = Append(fails, Failure("set"))
                   /\ UNCHANGED <<pc, heap, lastRes, entered>>
              ELSE /\ Proceed(rs.h, result)
                   /\ UNCHANGED fails
         ELSE /\ Proceed(heap, result)
              /\ UNCHANGED fails
    /\ visits' = visits + 1
    /\ ctx' = Context(Top, Top.i)
    /\ execs' = Counted(Top.curr, Top.i)
    /\ UNCHANGED <<ev, decl, pre, arg, extra, ret, dsp>>

\* The loop of a call of eval is over: it returns merr, to Eval's caller or as
\* the error of the field the enclosing call recursed from.
Return ==
    /\ pc = "walk"
    /\ Top.i > NumFields
    /\ IF Depth = 1
       THEN /\ pc' = "done"
            /\ ret' = Top.merr
            /\ stack' = <<>>
            /\ UNCHANGED lastRes
       ELSE /\ stack' = [SubSeq(stack, 1, Depth - 1) EXCEPT
                           ![Depth - 1] = Advance(stack[Depth - 1], Top.merr)]
            /\ lastRes' = [lastRes EXCEPT ![Depth - 1] = NilV]
            /\ UNCHANGED <<pc, ret>>
    /\ ctx' = NoCtx
    /\ UNCHANGED <<ev, decl, heap, pre, arg, extra, fails, visits, entered, execs, dsp>>

\* ------------------------------------------------------------ the programs
Registries == {{"eval"}, {WholeTag}, {WholeTag, "eval"}}

\* The annotations of the walked records: none, an expression under the tag
\* name eval, a malformed one.
TagCases == { <<>>, <<Item("eval", "e")>>, <<Item(BadKey, "")>> }

InitInt == MaxVal

\* The values a field of record r may hold when Eval is called, with the
\* declared kind.
FieldOpts(r) ==
    {<<"int", IntV(InitInt)>>, <<"ptr", NilV>>, <<"iface", NilV>>}
    \cup {<<"ptr", RefV(t)>> : t \in Recs}
    \cup {<<"iface", RefV(t)>> : t \in Recs}
    \cup {<<"struct", RefV(t)>> : t \in {x \in Recs : x > r}}

Links(w, r) == {f \in Fields : w[r][f][1] # "int"}
Targets(w, r) == {w[r][f][2].n : f \in {x \in Fields : w[r][x][2].k = "ref"}}
Owned(w) == {p \in Recs \X Fields : w[p[1]][p[2]][1] = "struct"}

RECURSIVE Reach(_, _, _)
Reach(w, seen, n) ==
    IF n = 0 THEN seen
    ELSE Reach(w, seen \cup UNION {Targets(w, r) : r \in seen}, n - 1)

\* The record graphs: each record type has at most one field that is not a
\* number, a record is held by value by at most one field, and a record
\* Eval cannot reach has only numbers.
Worlds ==
    {w \in [Recs -> [Fields -> UNION {FieldOpts(r) : r \in Recs}]] :
        /\ \A r \in Recs : \A f \in Fields : w[r][f] \in FieldOpts(r)
        /\ \A r \in Recs : Cardinality(Links(w, r)) <= 1
        /\ \A p, q \in Owned(w) : w[p[1]][p[2]] = w[q[1]][q[2]] => p = q
        /\ \A r \in Recs \ Reach(w, {1}, NumRecs) : Links(w, r) = {}}

PlainWorld == [r \in Recs |-> [f \in Fields |-> <<"int", IntV(InitInt)>>]]

Args == {[k |-> "ptr", r |-> 1], [k |-> "val", r |-> 1]}
\* nil, a nil pointer to a record, a pointer to a pointer to a record, a number.
BadArgs == {[k |-> x, r |-> 0] : x \in {"nil", "nilptr", "ptrptr", "int"}}

\* The extra context is opaque to the evaluator.
Extras == {StrV}

Evaluators == [reg : Registries, nonMut : BOOLEAN, evalEmpty : BOOLEAN]

InitGhost ==
    /\ stack = <<>>
    /\ ret = NilErr
    /\ ctx = NoCtx
    /\ lastRes = [d \in 1..StackLimit |-> NilV]
    /\ fails = <<>>
    /\ visits = 0
    /\ entered = 0
    /\ execs = [r \in Recs |-> [f \in Fields |-> 0]]
    /\ pre = heap

InitWorld(w, t) ==
    /\ decl = [kind |-> [r \in Recs |-> [f \in Fields |-> w[r][f][1]]],
               tag |-> [r \in Recs |-> t]]
    /\ heap = [r \in Recs |-> [f \in Fields |-> w[r][f][2]]]

\* Eval is about to be called: on a record of some record graph, or on
\* something that is no record.
Init ==
    /\ pc = "init"
    /\ ev \in Evaluators
    /\ extra \in Extras
    /\ \/ /\ arg \in Args
          /\ \E w \in Worlds, t \in [Fields -> TagCases] : InitWorld(w, t)
       \/ /\ arg \in BadArgs
          /\ InitWorld(PlainWorld, [f \in Fields |-> <<>>])
    /\ InitGhost
    /\ dsp = NoDispatch

Next ==
    \/ Eval
    \/ FieldScanError
    \/ FieldSkip
    \/ FieldExecNil
    \/ FieldExecError
    \/ FieldExecOk
    \/ Return

Spec == Init /\ [][Next]_vars

\* ------------------------------------------------------ dispatch on its own
\* Tags of at most MaxItems items.
MaxItems == 2

DispatchItems ==
    {Item(k, v) : k \in {WholeTag, "eval", "cc", "b"}, v \in {"", "e"}}
    \cup {Item(WordKey, ""), Item(BadKey, "")}

DispatchTags ==
    {t \in UNION {[1..n -> DispatchItems] : n \in 0..MaxItems} :
        \A a, b \in DOMAIN t : t[a].k = t[b].k => a = b}

DispatchRegs == (SUBSET {WholeTag, "eval", "cc"}) \ {{}}

InitDispatch ==
    /\ pc = "dispatch"
    /\ dsp \in [tag : DispatchTags, reg : DispatchRegs, out : {{}}]
    /\ ev = [reg |-> dsp.reg, nonMut |-> FALSE, evalEmpty |-> FALSE]
    /\ extra = NilV
    /\ arg = NoArg
    /\ InitWorld(PlainWorld, [f \in Fields |-> <<>>])
    /\ InitGhost

\* fieldIntrospect on the field of dsp: one of the descriptors the range over
\* the tag map can end with.
Dispatch ==
    /\ pc = "dispatch"
    /\ \E d \in fieldIntrospect(dsp.tag, dsp.reg) : dsp' = [dsp EXCEPT !.out = d]
    /\ pc' = "dispatched"
    /\ UNCHANGED <<ev, decl, heap, pre, arg, extra, stack, ret, ctx, lastRes, fails,
                   visits, entered, execs>>

SpecDispatch == InitDispatch /\ [][Dispatch]_vars

\* ------------------------------------------------------------------ claims
\* <<T.F>> for field f of record type r, T as fmt prints the type of the
\* record or of the pointer to it.
Named(r, f) ==
    { <<Lit("<<"), TypeTok(r), Lit("."), FieldTok(f), Lit(">>")>>,
      <<Lit("<<"), Lit("*"), TypeTok(r), Lit("."), FieldTok(f), Lit(">>")>> }

NamesField(text, r, f) == \E n \in Named(r, f) : Contains(text, n)

RECURSIVE FlatTexts(_)
FlatTexts(st) ==
    IF st = <<>> THEN <<>> ELSE Head(st).merr.texts \o FlatTexts(Tail(st))

\* The error entries recorded so far: those Eval returned, or those the active
\* calls hold, outermost first.
Recorded == IF pc = "done" THEN ret.texts ELSE FlatTexts(stack)

AllProcessed == visits = entered * NumFields

\* C1: when Execute fails for field F of a record of type T, the text of the
\* error Eval returns contains <<T.F>>, whatever the interpreter's own text
\* is, and the other fields of the walk are still processed.
C1_ExecErrorNamesField ==
    (pc = "done" /\ arg \in Args) =>
        /\ \A j \in 1..Len(fails) :
              fails[j].kind = "exec" => NamesField(ErrorText(ret), fails[j].r, fails[j].f)
        /\ AllProcessed

HasExpr(r, f) == \E d \in fieldIntrospect(decl.tag[r][f], ev.reg) : d.expr # <<>>

C3_Aggregate ==
    arg \in Args =>
        /\ Len(Recorded) = Len(fails)
        /\ pc = "done" =>
              /\ ret.nil <=> fails = <<>>
              /\ ~ret.nil => ret.multi
              /\ AllProcessed

C3_Witness ==
    /\ pc = "done"
    /\ \E j, k \in 1..Len(fails) :
          /\ j < k
          /\ fails[j].depth >= 2 /\ fails[k].depth = 1
          /\ \E m \in 1..Len(fails) : m # j /\ fails[m].depth >= 2
    /\ {"exec", "set"} \subseteq {fails[j].kind : j \in 1..Len(fails)}

\* C4: the WholeTag interpreter is selected only when no key of the tag map
\* matches a named registered interpreter, and then the expression is the
\* entire raw annotation; when a key matches a named interpreter, a named
\* interpreter is selected with its key's value as the expression.
C4_WholeTagLast ==
    pc = "dispatched" =>
        LET sc == Tags(dsp.tag)
            named == dsp.reg \ {WholeTag}
            d == dsp.out
        IN  ~sc.err =>
              /\ d.interp = WholeTag =>
                    /\ (DOMAIN sc.tags) \cap named = {}
                    /\ d.expr = TagString(dsp.tag)
              /\ (DOMAIN sc.tags) \cap named # {} =>
                    /\ d.interp \in (DOMAIN sc.tags) \cap named
                    /\ d.expr = sc.tags[d.interp]

\* C5: every expression context built during Eval(root, extra) has Struct the
\* root passed to Eval, Extra the extra passed to Eval, and Sub the result the
\* interpreter returned for the field the current call recursed from: nil at
\* the root and nil when that field was not evaluated.
C5_Context ==
    ctx # NoCtx =>
        /\ ctx.s = arg
        /\ ctx.extra = extra
        /\ ctx.sub = IF ctx.depth = 1 THEN NilV ELSE lastRes[ctx.depth - 1]

C5_Witness ==
    /\ ctx # NoCtx
    /\ ctx.depth = 3
    /\ ctx.sub # NilV
    /\ lastRes[1] # ctx.sub
    /\ stack[3].curr # arg.r

Unannotated == \A r \in Recs : \A f \in Fields : decl.tag[r][f] = <<>>

\* C6: a mutating evaluator, whatever its registry and EvalEmptyTags, on a
\* record with no annotation: Eval returns no error, changes no field, and
\* never calls Execute with no interpreter selected.
C6_UnannotatedNoOp ==
    (~ev.nonMut /\ arg \in Args /\ Unannotated) =>
        /\ pc # "panic_nil"
        /\ heap = pre
        /\ pc = "done" => ret.nil

\* C7: a result that cannot be converted or assigned to a writable field is
\* caught inside reflectSet and recorded as an entry that contains <<T.F>>;
\* it never escapes as a panic, and the walk goes on to the remaining fields.
C7_CoercionCaught ==
    /\ pc # "panic_set"
    /\ \A j \in 1..Len(fails) :
          fails[j].kind = "set" =>
              /\ j <= Len(Recorded)
              /\ NamesField(Recorded[j], fails[j].r, fails[j].f)
    /\ (pc = "done" /\ arg \in Args) => AllProcessed

C7_Witness ==
    /\ pc = "done"
    /\ \E j \in 1..Len(fails) :
          /\ fails[j].kind = "set"
          /\ fails[j].f < NumFields
          /\ execs[fails[j].r][fails[j].f + 1] >= 1

\* C8: Eval on nil, a nil pointer, a pointer to a pointer or a non-record
\* returns the root-argument error at once: no panic, no field touched.
C8_BadRootReturnsError ==
    arg \in BadArgs =>
        /\ pc # "panic_arg"
        /\ pc # "init" => (pc = "done" /\ ~ret.nil /\ visits = 0 /\ heap = pre)

ScansOk == \A d \in Descr : ~d.err

\* C9: a field that holds a nested record and whose annotation scans is
\* recursed into also when its own step fails (interpreter or coercion).
C9_RecursesAfterFailure ==
    [][(AtField /\ ScansOk /\ Nested(Top, heap, Top.i).some /\ Len(fails') = Len(fails) + 1)
          => Len(stack') = Len(stack) + 1]_vars

\* C10: on every finite record graph, shared instances and reference cycles
\* included, Execute is called at most once per field of each record and the
\* walk terminates.
C10_OncePerField ==
    /\ \A r \in Recs : \A f \in Fields : execs[r][f] <= 1
    /\ pc # "overflow"

====
